---- MODULE Spec2Model ----
(***************************************************************************)
(* Model of the voice-agent session client:                                *)
(*   frontend/src/hooks/useWebRTC.ts  (connection state machine, control-  *)
(*                                     message handler, mute toggle)       *)
(*   frontend/src/App.tsx             (caller-held transcript / log store) *)
(* JavaScript runs one handler to completion at a time; an async function  *)
(* is cut into steps at its awaits.  Every step below is one such          *)
(* run-to-completion segment.  The state it sets is rendered by a later    *)
(* step (Render), and the effects of that render run in a step after it    *)
(* (RunEffects); a function created by a render keeps reading the state    *)
(* of its render until the next one.                                       *)
(***************************************************************************)
EXTENDS Integers, Sequences, FiniteSets, TLC

\* ---------------------------------------------------------------- bounds
MaxTransports == 2      \* call objects Daily.createCallObject may hand out
MaxTasks == 2           \* async connect()/disconnect() calls in flight
MaxCounter == 2         \* cap on the module-level fallback id counters
MaxMessageId == 1       \* explicit messageId values drawn from 1..MaxMessageId
MaxFragments == 3       \* transcript fragments received between two clears of the store
MaxCallbacks == 2       \* distinct callback sets the caller registers
MaxToggles == 3         \* setLocalAudio calls made on one call object
MaxLogs == 22           \* log messages received between two clears of the buffer

Transports == 1..MaxTransports
Tasks == 1..MaxTasks

\* ---------------------------------------------------------------- types
ConnectionStatus == {"disconnected", "connecting", "connected"}
PipelineStatus == {"idle", "listening", "stt", "llm", "tts"}
Roles == {"user", "assistant"}

NoSession == "null"                 \* sessionId === null
NoCall == 0                         \* callObjectRef.current === null

\* Meeting state of a call object: "none" = not created yet.
TransportStates == {"none", "joining", "joined", "left", "destroyed"}

\* Position of an async call: "free" = no call in this slot.
\*   fetch   connect()    awaiting fetch(...)
\*   json    connect()    awaiting response.json()
\*   join    connect()    awaiting callObject.join(...)
\*   leave   disconnect() awaiting callObjectRef.current.leave()
\*   destroy disconnect() awaiting callObjectRef.current.destroy()
Pcs == {"free", "fetch", "json", "join", "leave", "destroy"}

VARIABLES
    sessionId,                  \* App: useState sessionId
    connectionStatus,           \* useWebRTC: useState connectionStatus
    pipelineStatus,             \* useWebRTC: useState pipelineStatus
    isMuted,                    \* useWebRTC: useState isMuted
    callObjectRef,              \* useWebRTC: callObjectRef.current
    tr,                         \* the call objects created so far: meeting state,
                                \* localAudio(), number of setLocalAudio calls
    task,                       \* async calls in flight
    globalUserMessageId,        \* module-level counter
    globalAssistantMessageId,   \* module-level counter
    messages,                   \* App: useState messages
    logs,                       \* App: useState logs
    received,                   \* the transcript payloads handled since the store
                                \* was last cleared, each with the message passed
                                \* to onTranscript (observation only)
    cb,                         \* the callbacks: prop = the set the caller passed at
                                \* the latest render, ref = on*Ref.current,
                                \* invoked = <<set, kind>> of the latest invocation,
                                \* atConnect = the set the caller had passed when
                                \* the latest call object got its handlers
    lastCall,                   \* the caller's latest API call (observation only)
    lastStep,                   \* the kind of step just taken (observation only):
                                \* "call" an API call, "message:<type>" a control
                                \* message, "error:<t>" the error event of call
                                \* object t, "fetchFailed" a failed credential
                                \* fetch, "async" any other event or resumed await
    beforeToggle,               \* what the latest toggleMute() found (observation only)
    view                        \* the latest render: the connectionStatus and
                                \* sessionId its connect() closes over, dep = the
                                \* isConnected the App effect last ran with,
                                \* mounted = the component is still mounted

vars == <<sessionId, connectionStatus, pipelineStatus, isMuted, callObjectRef,
          tr, task, globalUserMessageId, globalAssistantMessageId, messages,
          logs, received, cb, lastCall, lastStep, beforeToggle, view>>

connVars == <<connectionStatus, pipelineStatus, callObjectRef, tr, task>>
counters == <<globalUserMessageId, globalAssistantMessageId>>

\* A flag that also counts an attempt in progress as connected.
isConnected_NotDisconnected == view.connectionStatus # "disconnected"

\* The derived flag as the latest render returned it.
isConnected == view.connectionStatus = "connected"

\* ---------------------------------------------------------------- helpers
\* Observation of the step being taken.
Called(name) ==
    lastCall' = name /\ lastStep' = "call" /\ UNCHANGED <<cb, beforeToggle, view>>
Async ==
    lastStep' = "async" /\ lastCall' = lastCall /\ UNCHANGED <<cb, beforeToggle, view>>

\* The component has not been unmounted.
Mounted == view.mounted

\* The latest render shows the current state and its effects have run.
UpToDate ==
    /\ view.connectionStatus = connectionStatus
    /\ view.sessionId = sessionId
    /\ view.dep = isConnected
    /\ cb.ref = cb.prop

IsFree(k) == task[k].pc = "free"

\* The slot a newly started async call occupies.
NewTask == CHOOSE k \in Tasks : IsFree(k) /\ \A j \in Tasks : j < k => ~IsFree(j)

\* The call object Daily.createCallObject returns next.
NewTransport ==
    CHOOSE t \in Transports : tr[t].state = "none"
                              /\ \A u \in Transports : u < t => tr[u].state # "none"

\* A call object that exists: created and not destroyed.
Live(t) == tr[t].state \in {"joining", "joined", "left"}

\* App.tsx effect on [isConnected]: it runs after a render whose isConnected
\* differs from the one it last ran with, and clears the caller's transcript
\* and log stores when that render saw isConnected false.
ClearOnDisconnect ==
    IF view.dep # isConnected /\ ~isConnected
    THEN messages' = << >> /\ logs' = << >> /\ received' = << >>
    ELSE UNCHANGED <<messages, logs, received>>

\* ---------------------------------------------------------------- Init
Init ==
    /\ sessionId = NoSession
    /\ connectionStatus = "disconnected"
    /\ pipelineStatus = "idle"
    /\ isMuted = FALSE
    /\ callObjectRef = NoCall
    /\ tr = [t \in Transports |-> [state |-> "none", audio |-> TRUE, sets |-> 0]]
    /\ task = [k \in Tasks |-> [pc |-> "free", co |-> NoCall]]
    /\ globalUserMessageId = 0
    /\ globalAssistantMessageId = 0
    /\ messages = << >>
    /\ logs = << >>
    /\ received = << >>
    /\ cb = [prop |-> 1, ref |-> 1, invoked |-> <<0, "none">>, atConnect |-> 0]
    /\ lastCall = "none"
    /\ lastStep = "async"
    /\ beforeToggle = [active |-> FALSE, audio |-> TRUE, isMuted |-> FALSE, sets |-> 0]
    /\ view = [connectionStatus |-> "disconnected", sessionId |-> NoSession,
               dep |-> FALSE, mounted |-> TRUE]

\* ---------------------------------------------------------------- App
\* App.tsx createSession: POST /api/session answered with a session id.
CreateSession ==
    /\ Mounted
    /\ sessionId = NoSession
    /\ sessionId' = "s1"
    /\ Async
    /\ UNCHANGED <<connVars, isMuted, counters, messages, logs, received>>

\* ---------------------------------------------------------------- disconnect
\* disconnect() run by slot k from its entry to its first await (or to its
\* end when there is no call object).  cs is the connection status at entry;
\* the callers that set it just before calling disconnect() pass that value.
DisconnectEntry(k, cs) ==
    IF callObjectRef # NoCall
    THEN /\ task' = [task EXCEPT ![k] = [pc |-> "leave", co |-> NoCall]]
         /\ connectionStatus' = cs
         /\ UNCHANGED <<pipelineStatus, callObjectRef, tr>>
    ELSE /\ task' = [task EXCEPT ![k] = [pc |-> "free", co |-> NoCall]]
         /\ connectionStatus' = "disconnected"
         /\ pipelineStatus' = "idle"
         /\ UNCHANGED <<callObjectRef, tr>>

\* The caller invokes disconnect().
Disconnect ==
    /\ Mounted
    /\ \E k \in Tasks : IsFree(k)
    /\ DisconnectEntry(NewTask, connectionStatus)
    /\ Called(IF \E k \in Tasks : task[k].pc \in {"fetch", "json", "join"}
              THEN "disconnectMidConnect" ELSE "disconnect")
    /\ UNCHANGED <<messages, logs, received>>
    /\ UNCHANGED <<sessionId, isMuted, counters>>

\* await leave() resolved: disconnect() goes on to callObjectRef.current.destroy().
\* The ref is read again: if it is null by now the call throws a TypeError
\* and the async function ends rejected.
LeaveResolves(k) ==
    /\ task[k].pc = "leave"
    /\ IF callObjectRef = NoCall
       THEN /\ task' = [task EXCEPT ![k].pc = "free"]
            /\ tr' = tr
       ELSE /\ task' = [task EXCEPT ![k].pc = "destroy"]
            /\ tr' = [tr EXCEPT ![callObjectRef].state = "destroyed"]
    /\ Async
    /\ UNCHANGED <<sessionId, connectionStatus, pipelineStatus, isMuted,
                   callObjectRef, counters, messages, logs, received>>

\* await leave() rejected: disconnect() ends rejected there.
LeaveRejects(k) ==
    /\ task[k].pc = "leave"
    /\ task' = [task EXCEPT ![k].pc = "free"]
    /\ Async
    /\ UNCHANGED <<sessionId, connectionStatus, pipelineStatus, isMuted,
                   callObjectRef, tr, counters, messages, logs, received>>

\* await destroy() resolved: the ref is cleared and the state reset.
DestroyResolves(k) ==
    /\ task[k].pc = "destroy"
    /\ task' = [task EXCEPT ![k].pc = "free"]
    /\ callObjectRef' = NoCall
    /\ connectionStatus' = "disconnected"
    /\ pipelineStatus' = "idle"
    /\ Async
    /\ UNCHANGED <<messages, logs, received>>
    /\ UNCHANGED <<sessionId, isMuted, tr, counters>>

\* await destroy() rejected: disconnect() ends rejected there.
DestroyRejects(k) ==
    /\ task[k].pc = "destroy"
    /\ task' = [task EXCEPT ![k].pc = "free"]
    /\ Async
    /\ UNCHANGED <<sessionId, connectionStatus, pipelineStatus, isMuted,
                   callObjectRef, tr, counters, messages, logs, received>>

\* ---------------------------------------------------------------- connect
\* The guard of connect(): connectionStatus and sessionId are those of the
\* render that created the function.
ConnectGuard ==
    view.connectionStatus = "disconnected" /\ view.sessionId # NoSession

\* The caller invokes connect().
Connect ==
    /\ Mounted
    /\ \E k \in Tasks : IsFree(k)
    /\ IF ConnectGuard
       THEN /\ connectionStatus' = "connecting"
            /\ task' = [task EXCEPT ![NewTask] = [pc |-> "fetch", co |-> NoCall]]
            /\ UNCHANGED <<pipelineStatus, callObjectRef, tr>>
       ELSE UNCHANGED connVars
    /\ Called("connect")
    /\ UNCHANGED <<messages, logs, received>>
    /\ UNCHANGED <<sessionId, isMuted, counters>>

\* The catch block of connect(): setConnectionStatus('disconnected') and
\* then disconnect(), run by the same slot.
ConnectCatch(k) == DisconnectEntry(k, "disconnected")

\* await fetch(...) resolved with response.ok: connect() awaits response.json().
FetchResolves(k) ==
    /\ task[k].pc = "fetch"
    /\ task' = [task EXCEPT ![k].pc = "json"]
    /\ Async
    /\ UNCHANGED <<sessionId, connectionStatus, pipelineStatus, isMuted,
                   callObjectRef, tr, counters, messages, logs, received>>

\* await fetch(...) rejected, or resolved with !response.ok: the throw
\* lands in the catch block.
FetchFails(k) ==
    /\ task[k].pc = "fetch"
    /\ ConnectCatch(k)
    /\ lastStep' = "fetchFailed"
    /\ UNCHANGED <<lastCall, cb, beforeToggle, view>>
    /\ UNCHANGED <<messages, logs, received>>
    /\ UNCHANGED <<sessionId, isMuted, counters>>

\* await response.json() resolved: the call object is created, stored in
\* the ref, its handlers are registered and join() is called.
JsonResolves(k) ==
    /\ task[k].pc = "json"
    /\ \E t \in Transports : tr[t].state = "none"
    /\ callObjectRef' = NewTransport
    /\ tr' = [tr EXCEPT ![NewTransport] = [state |-> "joining", audio |-> TRUE, sets |-> 0]]
    /\ task' = [task EXCEPT ![k] = [pc |-> "join", co |-> NewTransport]]
    /\ cb' = [cb EXCEPT !.atConnect = cb.prop]
    /\ lastStep' = "async"
    /\ UNCHANGED <<lastCall, beforeToggle, view>>
    /\ UNCHANGED <<sessionId, connectionStatus, pipelineStatus, isMuted,
                   counters, messages, logs, received>>

\* await response.json() rejected, or Daily.createCallObject threw: the
\* catch block runs with no call object created by this call.
SetupFails(k) ==
    /\ task[k].pc = "json"
    /\ ConnectCatch(k)
    /\ Async
    /\ UNCHANGED <<messages, logs, received>>
    /\ UNCHANGED <<sessionId, isMuted, counters>>

\* await callObject.join(...) resolved: connect() ends.
JoinResolves(k) ==
    /\ task[k].pc = "join"
    /\ tr[task[k].co].state # "joining"
    /\ task' = [task EXCEPT ![k] = [pc |-> "free", co |-> NoCall]]
    /\ Async
    /\ UNCHANGED <<sessionId, connectionStatus, pipelineStatus, isMuted,
                   callObjectRef, tr, counters, messages, logs, received>>

\* await callObject.join(...) rejected: the catch block runs.
JoinRejects(k) ==
    /\ task[k].pc = "join"
    /\ tr[task[k].co].state # "joined"
    /\ ConnectCatch(k)
    /\ Async
    /\ UNCHANGED <<messages, logs, received>>
    /\ UNCHANGED <<sessionId, isMuted, counters>>

\* ---------------------------------------------------------------- events
\* callObject.on('joined-meeting', ...)
JoinedMeeting(t) ==
    /\ tr[t].state = "joining"
    /\ tr' = [tr EXCEPT ![t].state = "joined"]
    /\ connectionStatus' = "connected"
    /\ pipelineStatus' = "idle"
    /\ Async
    /\ UNCHANGED <<messages, logs, received>>
    /\ UNCHANGED <<sessionId, isMuted, callObjectRef, task, counters>>

\* callObject.on('left-meeting', ...)
LeftMeeting(t) ==
    /\ tr[t].state = "joined"
    /\ tr' = [tr EXCEPT ![t].state = "left"]
    /\ connectionStatus' = "disconnected"
    /\ pipelineStatus' = "idle"
    /\ Async
    /\ UNCHANGED <<messages, logs, received>>
    /\ UNCHANGED <<sessionId, isMuted, callObjectRef, task, counters>>

\* callObject.on('error', ...): setConnectionStatus('disconnected') and a
\* disconnect() that nobody awaits.
ErrorEvent(t) ==
    /\ tr[t].state \in {"joining", "joined"}
    /\ \E k \in Tasks : IsFree(k)
    /\ DisconnectEntry(NewTask, "disconnected")
    /\ lastStep' = "error:" \o ToString(t)
    /\ UNCHANGED <<lastCall, cb, beforeToggle, view>>
    /\ UNCHANGED <<messages, logs, received>>
    /\ UNCHANGED <<sessionId, isMuted, counters>>

\* ---------------------------------------------------------------- callbacks
Callbacks == 1..MaxCallbacks

\* useEffect on [onStatusChange, onTranscript, onLog]: the refs take the
\* callbacks of the render.
RefAfterRender(c) == c

\* ---------------------------------------------------------------- render
\* Effects of the latest render that have not run yet.
EffectsPending == view.dep # isConnected \/ cb.ref # cb.prop

\* React renders App and the hook: connect() is created anew over the
\* current connectionStatus and sessionId, and the caller passes the
\* callback set c.  The effects of the previous render have run by then.
Render(c) ==
    /\ Mounted
    /\ ~EffectsPending
    /\ \/ view.connectionStatus # connectionStatus
       \/ view.sessionId # sessionId
       \/ c # cb.prop
    /\ view' = [view EXCEPT !.connectionStatus = connectionStatus,
                            !.sessionId = sessionId]
    /\ cb' = [cb EXCEPT !.prop = c]
    /\ lastStep' = "async"
    /\ UNCHANGED <<sessionId, connVars, isMuted, counters, messages, logs,
                   received, lastCall, beforeToggle>>

\* The effects of the latest render run: the callback refs take the
\* callbacks of that render, and the App effect on [isConnected] runs when
\* isConnected has changed.
RunEffects ==
    /\ Mounted
    /\ EffectsPending
    /\ cb' = [cb EXCEPT !.ref = RefAfterRender(cb.prop)]
    /\ ClearOnDisconnect
    /\ view' = [view EXCEPT !.dep = isConnected]
    /\ lastStep' = "async"
    /\ UNCHANGED <<sessionId, connVars, isMuted, counters, lastCall, beforeToggle>>

\* The component unmounts.  The unmount is a commit, and React first runs the
\* passive effects of the previous commit that are still pending: the refs
\* take the callbacks of the last render and the App effect on [isConnected]
\* runs.  Then the cleanup calls leave() and destroy() on the call object in
\* the ref and leaves the ref as it is.  The caller calls nothing afterwards
\* and nothing is rendered, but the connect() and disconnect() calls in
\* flight go on and the handlers of a call object that is not destroyed
\* still run; the state setters they call record values that no render
\* shows.
Unmount ==
    /\ Mounted
    /\ cb' = [cb EXCEPT !.ref = RefAfterRender(cb.prop)]
    /\ ClearOnDisconnect
    /\ view' = [view EXCEPT !.dep = isConnected, !.mounted = FALSE]
    /\ tr' = IF callObjectRef # NoCall
             THEN [tr EXCEPT ![callObjectRef].state = "destroyed"]
             ELSE tr
    /\ lastStep' = "async"
    /\ UNCHANGED <<sessionId, connectionStatus, pipelineStatus, isMuted,
                   callObjectRef, task, counters, lastCall, beforeToggle>>

\* ---------------------------------------------------------------- mute
\* toggleMute()
ToggleMute ==
    /\ Mounted
    /\ callObjectRef # NoCall => tr[callObjectRef].sets < MaxToggles
    /\ IF callObjectRef # NoCall
       THEN LET currentMuteState == (tr[callObjectRef].audio = FALSE)
            IN /\ tr' = [tr EXCEPT ![callObjectRef].audio = currentMuteState,
                                    ![callObjectRef].sets = @ + 1]
               /\ isMuted' = ~currentMuteState
       ELSE UNCHANGED <<tr, isMuted>>
    /\ lastCall' = "toggleMute"
    /\ lastStep' = "call"
    /\ beforeToggle' =
          IF callObjectRef # NoCall
          THEN [active |-> TRUE, audio |-> tr[callObjectRef].audio,
                isMuted |-> isMuted, sets |-> tr[callObjectRef].sets]
          ELSE [active |-> FALSE, audio |-> TRUE, isMuted |-> isMuted, sets |-> 0]
    /\ UNCHANGED <<sessionId, connectionStatus, pipelineStatus, callObjectRef,
                   task, counters, messages, logs, received, cb, view>>

\* ---------------------------------------------------------------- control messages
\* A control message is the record event.data; an optional field the
\* payload does not carry is missing from the record's domain.  NullData
\* stands for a payload that is null, on which reading data.type throws.
NullData == [isNull |-> TRUE]
IsNull(d) == "isNull" \in DOMAIN d

\* What a control message is recorded as in lastStep.
MessageLabel(d) ==
    IF IsNull(d) THEN "message:null"
    ELSE IF "type" \in DOMAIN d THEN "message:" \o d.type
    ELSE "message:untyped"

\* A dispatch whose last branch takes every remaining type for a status.
TypeOf_StatusByDefault(d) ==
    IF "type" \in DOMAIN d
    THEN (IF d.type \in {"transcript", "log"} THEN d.type ELSE "status")
    ELSE "undefined"

\* data.type as the if / else-if chain of handleAppMessage reads it.
TypeOf(d) == IF "type" \in DOMAIN d THEN d.type ELSE "undefined"

\* data.messageId != null
HasMessageId(d) == "messageId" \in DOMAIN d

\* The fallback id read from the other role's counter.
MessageIdOf_WrongCounter(d) ==
    IF HasMessageId(d) THEN d.messageId
    ELSE IF d.role = "user" THEN globalAssistantMessageId + 1
         ELSE globalUserMessageId + 1

\* The number the transcript branch puts into the id: the explicit
\* messageId, or the pre-incremented counter of the fragment's role.
MessageIdOf(d) ==
    IF HasMessageId(d) THEN d.messageId
    ELSE IF d.role = "user" THEN globalUserMessageId + 1
         ELSE globalAssistantMessageId + 1

\* `${role}-${messageId}`
CompositeId(role, messageId) == role \o "-" \o ToString(messageId)

\* The TranscriptMessage built from a transcript payload received at `now`.
TranscriptOf(d, now) ==
    [id |-> CompositeId(d.role, MessageIdOf(d)),
     role |-> d.role,
     text |-> d.text,
     timestamp |-> IF "timestamp" \in DOMAIN d THEN d.timestamp ELSE now,
     final |-> IF "final" \in DOMAIN d THEN d.final ELSE TRUE]

\* prev.findIndex((m) => m.id === id), 1-based; 0 stands for -1.
FindIndex(prev, id) ==
    IF \E i \in 1..Len(prev) : prev[i].id = id
    THEN CHOOSE i \in 1..Len(prev) :
            prev[i].id = id /\ \A j \in 1..(i - 1) : prev[j].id # id
    ELSE 0

\* handleTranscript that appends without looking for an existing entry.
HandleTranscript_AlwaysAppend(prev, message) == Append(prev, message)

\* App.tsx handleTranscript: the updater passed to setMessages.
HandleTranscript(prev, message) ==
    LET existingIndex == FindIndex(prev, message.id)
    IN IF existingIndex >= 1
       THEN [prev EXCEPT ![existingIndex] = message]
       ELSE Append(prev, message)

\* prev.slice(-19)
\* A slice that keeps one entry too many.
SliceLast19_KeepsTwenty(prev) ==
    IF Len(prev) <= 20 THEN prev ELSE SubSeq(prev, Len(prev) - 19, Len(prev))

\* prev.slice(-19)
SliceLast19(prev) ==
    IF Len(prev) <= 19 THEN prev ELSE SubSeq(prev, Len(prev) - 18, Len(prev))

\* App.tsx handleLog: the updater passed to setLogs.
HandleLog(prev, log) == Append(SliceLast19(prev), log)

\* on<Kind>Ref.current?.(...): the callback set in the ref is invoked.
Notify(kind) == [cb EXCEPT !.invoked = <<cb.ref, kind>>]

\* callObject.on('app-message', handleAppMessage): call object t delivers
\* the payload d at local time now.
AppMessage(t, d, now) ==
    /\ tr[t].state = "joined"
    /\ lastStep' = MessageLabel(d)
    /\ UNCHANGED <<lastCall, beforeToggle, view>>
    /\ IF IsNull(d) THEN
          \* TypeError on data.type, caught and logged
          UNCHANGED <<pipelineStatus, counters, messages, logs, received, cb>>
       ELSE IF TypeOf(d) = "status" THEN
          /\ pipelineStatus' = d.status
          /\ cb' = Notify("status")
          /\ UNCHANGED <<counters, messages, logs, received>>
       ELSE IF TypeOf(d) = "transcript" THEN
          /\ HasMessageId(d) \/
                (IF d.role = "user" THEN globalUserMessageId
                                    ELSE globalAssistantMessageId) < MaxCounter
          /\ Len(received) < MaxFragments
          /\ globalUserMessageId' =
                IF ~HasMessageId(d) /\ d.role = "user"
                THEN globalUserMessageId + 1 ELSE globalUserMessageId
          /\ globalAssistantMessageId' =
                IF ~HasMessageId(d) /\ d.role # "user"
                THEN globalAssistantMessageId + 1 ELSE globalAssistantMessageId
          /\ messages' = HandleTranscript(messages, TranscriptOf(d, now))
          /\ received' = Append(received, [data |-> d, message |-> TranscriptOf(d, now)])
          /\ cb' = Notify("transcript")
          /\ UNCHANGED <<pipelineStatus, logs>>
       ELSE IF TypeOf(d) = "log" THEN
          /\ logs' = HandleLog(logs, [text |-> d.text, timestamp |-> now])
          /\ cb' = Notify("log")
          /\ UNCHANGED <<pipelineStatus, counters, messages, received>>
       ELSE
          UNCHANGED <<pipelineStatus, counters, messages, logs, received, cb>>
    /\ UNCHANGED <<sessionId, connectionStatus, isMuted, callObjectRef, tr, task>>

\* ---------------------------------------------------------------- transcript view
\* A comparator that orders the newest message first.
Compare_NewestFirst(a, b) == b.timestamp - a.timestamp

\* ChatInterface.tsx: (a, b) => a.timestamp - b.timestamp
Compare(a, b) == a.timestamp - b.timestamp

\* One insertion of the stable sort: x goes before the first element that
\* the comparator puts after it, and so behind every element it ties with.
RECURSIVE InsertSorted(_, _)
InsertSorted(sorted, x) ==
    IF sorted = <<>> THEN <<x>>
    ELSE IF Compare(Head(sorted), x) > 0 THEN <<x>> \o sorted
    ELSE <<Head(sorted)>> \o InsertSorted(Tail(sorted), x)

\* Array.prototype.sort with the comparator, which is a stable sort.
RECURSIVE SortMessages(_)
SortMessages(ms) ==
    IF ms = <<>> THEN <<>>
    ELSE InsertSorted(SortMessages(SubSeq(ms, 1, Len(ms) - 1)), ms[Len(ms)])

\* ChatInterface.tsx: the memoised sorted copy of the messages prop.
sortedMessages == SortMessages(messages)

\* ---------------------------------------------------------------- inputs
\* Status payloads, an unrecognised type and a null payload.
StatusInputs ==
    { [type |-> "status", status |-> s] : s \in {"idle", "listening"} }
ControlInputs == StatusInputs

\* Transcript fragments: without messageId and final flag, and a partial
\* and a final text under an explicit messageId.
TranscriptInputs ==
    { [type |-> "transcript", role |-> r, text |-> "hi there"] : r \in Roles }
    \cup { [type |-> "transcript", role |-> r, text |-> "hi", final |-> FALSE,
            messageId |-> m] : r \in Roles, m \in 1..MaxMessageId }
    \cup { [type |-> "transcript", role |-> r, text |-> "hi there", final |-> TRUE,
            messageId |-> m] : r \in Roles, m \in 1..MaxMessageId }

\* The one log line of the log specification; its entries are told apart by
\* their timestamps.
LogInput == [type |-> "log", text |-> "stt ready"]

\* Date.now() of the log specification: a clock that ticks once per log
\* message and restarts when the buffer is cleared, so that the timestamp of
\* an entry is its arrival number.
NextLogTime == IF logs = <<>> THEN 1 ELSE logs[Len(logs)].timestamp + 1

\* Control messages that are dropped: an unknown type (with a payload that
\* would fit a status), a payload without a type, a null payload.
DroppedInputs ==
    { [type |-> "bogus", status |-> "listening"], [status |-> "listening"], NullData }

\* One message of each handled type, and the dropped ones.
CallbackInputs ==
    { [type |-> "status", status |-> "listening"],
      [type |-> "transcript", role |-> "user", text |-> "hi there", final |-> TRUE,
       messageId |-> 1],
      LogInput }
    \cup DroppedInputs

\* Transcripts that carry their own timestamp, and one that takes Date.now().
ViewTimes == {1, 3, 5}
ViewInputs ==
    { [type |-> "transcript", role |-> r, text |-> "hi there", timestamp |-> ts] :
        r \in Roles, ts \in ViewTimes }
    \cup { [type |-> "transcript", role |-> "user", text |-> "hi", final |-> FALSE,
            messageId |-> m] : m \in 1..MaxMessageId }

\* ---------------------------------------------------------------- specifications
\* The connection state machine with status control messages.
Next ==
    \/ CreateSession
    \/ Render(cb.prop)
    \/ RunEffects
    \/ Unmount
    \/ Connect
    \/ Disconnect
    \/ \E k \in Tasks : FetchResolves(k)
    \/ \E k \in Tasks : FetchFails(k)
    \/ \E k \in Tasks : JsonResolves(k)
    \/ \E k \in Tasks : SetupFails(k)
    \/ \E k \in Tasks : JoinResolves(k)
    \/ \E k \in Tasks : JoinRejects(k)
    \/ \E k \in Tasks : LeaveResolves(k)
    \/ \E k \in Tasks : LeaveRejects(k)
    \/ \E k \in Tasks : DestroyResolves(k)
    \/ \E k \in Tasks : DestroyRejects(k)
    \/ \E t \in Transports : JoinedMeeting(t)
    \/ \E t \in Transports : LeftMeeting(t)
    \/ \E t \in Transports : ErrorEvent(t)
    \/ \E t \in Transports, d \in ControlInputs : AppMessage(t, d, 1)

Spec == Init /\ [][Next]_vars

\* Sessions that connect, receive transcript fragments and are left; the
\* caller calls connect() only when it is accepted, and the join() promises
\* stay pending (their resolution only ends connect()).
NextMsg ==
    \/ CreateSession
    \/ UpToDate /\ ConnectGuard /\ Connect
    \/ Render(cb.prop)
    \/ RunEffects
    \/ \E k \in Tasks : FetchResolves(k)
    \/ \E k \in Tasks : JsonResolves(k)
    \/ \E t \in Transports : JoinedMeeting(t)
    \/ \E t \in Transports : LeftMeeting(t)
    \/ \E t \in Transports, d \in TranscriptInputs : AppMessage(t, d, 1)

SpecMsg == Init /\ [][NextMsg]_vars

\* Sessions that connect, receive log and status messages and are left.
NextLog ==
    \/ CreateSession
    \/ UpToDate /\ ConnectGuard /\ Connect
    \/ Render(cb.prop)
    \/ RunEffects
    \/ \E k \in Tasks : FetchResolves(k)
    \/ \E k \in Tasks : JsonResolves(k)
    \/ \E t \in Transports : JoinedMeeting(t)
    \/ \E t \in Transports : LeftMeeting(t)
    \/ \E t \in Transports, d \in StatusInputs : AppMessage(t, d, 1)
    \/ \E t \in Transports :
          NextLogTime <= MaxLogs /\ AppMessage(t, LogInput, NextLogTime)

SpecLog == Init /\ [][NextLog]_vars

\* Sessions that connect, are muted and unmuted, and are disconnected by the
\* caller once they are connected, with leave() and destroy() resolving.
NextMute ==
    \/ CreateSession
    \/ UpToDate /\ ConnectGuard /\ Connect
    \/ Render(cb.prop)
    \/ RunEffects
    \/ UpToDate /\ isConnected /\ Disconnect
    \/ ToggleMute
    \/ \E k \in Tasks : FetchResolves(k)
    \/ \E k \in Tasks : JsonResolves(k)
    \/ \E k \in Tasks : JoinResolves(k)
    \/ \E k \in Tasks : LeaveResolves(k)
    \/ \E k \in Tasks : DestroyResolves(k)
    \/ \E t \in Transports : JoinedMeeting(t)

SpecMute == Init /\ [][NextMute]_vars

\* Sessions that connect, receive control messages of every kind and are
\* left, while the caller registers new callbacks.
NextCb ==
    \/ CreateSession
    \/ UpToDate /\ ConnectGuard /\ Connect
    \/ RunEffects
    \/ \E k \in Tasks : FetchResolves(k)
    \/ \E k \in Tasks : JsonResolves(k)
    \/ \E t \in Transports : JoinedMeeting(t)
    \/ \E t \in Transports : LeftMeeting(t)
    \/ \E c \in Callbacks : Render(c)
    \/ \E t \in Transports, d \in CallbackInputs : AppMessage(t, d, 1)

SpecCb == Init /\ [][NextCb]_vars

\* Sessions that connect, receive timestamped transcripts and are left;
\* Date.now() reads 3.
NextView ==
    \/ CreateSession
    \/ UpToDate /\ ConnectGuard /\ Connect
    \/ Render(cb.prop)
    \/ RunEffects
    \/ \E k \in Tasks : FetchResolves(k)
    \/ \E k \in Tasks : JsonResolves(k)
    \/ \E t \in Transports : JoinedMeeting(t)
    \/ \E t \in Transports : LeftMeeting(t)
    \/ \E t \in Transports, d \in ViewInputs : AppMessage(t, d, 3)

SpecView == Init /\ [][NextView]_vars

\* Every connect() in flight can still get a call object of its own.
TransportsLeft ==
    Cardinality({ k \in Tasks : task[k].pc \in {"fetch", "json"} })
        < Cardinality({ t \in Transports : tr[t].state = "none" })

\* Sessions that connect and whose call object reports an error; the caller
\* calls connect() only when it is accepted and never disconnect(), and
\* no promise rejects.
NextErr ==
    \/ CreateSession
    \/ UpToDate /\ ConnectGuard /\ TransportsLeft /\ Connect
    \/ Render(cb.prop)
    \/ RunEffects
    \/ \E k \in Tasks : FetchResolves(k)
    \/ \E k \in Tasks : JsonResolves(k)
    \/ \E k \in Tasks : JoinResolves(k)
    \/ \E k \in Tasks : LeaveResolves(k)
    \/ \E k \in Tasks : DestroyResolves(k)
    \/ \E t \in Transports : JoinedMeeting(t)
    \/ \E t \in Transports : ErrorEvent(t)

\* The promises that connect() and disconnect() await do settle, and the
\* event loop then resumes the function.
FairAwaits ==
    \A k \in Tasks :
        /\ WF_vars(FetchResolves(k))
        /\ WF_vars(JsonResolves(k))
        /\ WF_vars(JoinResolves(k))
        /\ WF_vars(LeaveResolves(k))
        /\ WF_vars(DestroyResolves(k))

SpecErr == Init /\ [][NextErr]_vars /\ FairAwaits

TypeOK ==
    /\ sessionId \in {NoSession, "s1"}
    /\ connectionStatus \in ConnectionStatus
    /\ pipelineStatus \in PipelineStatus
    /\ isMuted \in BOOLEAN
    /\ callObjectRef \in {NoCall} \cup Transports
    /\ \A t \in Transports : /\ tr[t].state \in TransportStates
                              /\ tr[t].audio \in BOOLEAN
                              /\ tr[t].sets \in 0..MaxToggles
    /\ cb.prop \in Callbacks /\ cb.ref \in Callbacks
    /\ view.connectionStatus \in ConnectionStatus
    /\ view.sessionId \in {NoSession, "s1"}
    /\ view.dep \in BOOLEAN /\ view.mounted \in BOOLEAN
    /\ \A k \in Tasks : task[k].pc \in Pcs /\ task[k].co \in {NoCall} \cup Transports
    /\ globalUserMessageId \in 0..MaxCounter
    /\ globalAssistantMessageId \in 0..MaxCounter
    /\ Len(messages) <= Len(received)
    /\ Len(received) <= MaxFragments
    /\ Len(logs) <= 20

\* ---------------------------------------------------------------- connection claims
\* C1: connect() called while the connection status is not `disconnected`,
\* or while there is no session id, changes nothing: status, pipeline
\* status, transport reference, call objects and pending requests stay as
\* they were (no credential request issued, no transport created).
C1_ConnectRejectedIsNoOp ==
    [][ ( /\ lastStep' = "call"
          /\ lastCall' = "connect"
          /\ (connectionStatus # "disconnected" \/ sessionId = NoSession) )
        => UNCHANGED <<connectionStatus, pipelineStatus, callObjectRef, tr, task>>
      ]_vars

\* Nothing is pending: no async call is suspended and no call object is
\* still on its way into the meeting.
Quiescent ==
    /\ \A k \in Tasks : IsFree(k)
    /\ \A t \in Transports : tr[t].state # "joining"

\* C2: when the caller's latest call was a disconnect() issued while a
\* connect() was suspended, then once everything pending has run no call
\* object is left created-and-not-destroyed, the reference is null and the
\* status is `disconnected` (the component being still mounted).
C2_DisconnectMidConnectReleases ==
    (lastCall = "disconnectMidConnect" /\ Quiescent /\ Mounted)
        => /\ connectionStatus = "disconnected"
           /\ callObjectRef = NoCall
           /\ \A t \in Transports : ~Live(t)

\* C3: every disconnect() that had a call object to tear down ends, however
\* leave() and destroy() turn out, with status `disconnected`, pipeline
\* status `idle` and the reference cleared.
C3_DisconnectAlwaysResets ==
    [][ \A k \in Tasks :
          (task[k].pc \in {"leave", "destroy"} /\ task'[k].pc = "free")
            => /\ connectionStatus' = "disconnected"
               /\ pipelineStatus' = "idle"
               /\ callObjectRef' = NoCall
      ]_vars

\* C4: a termination path that completes in one step (the left-meeting
\* event, or a connect() that fails before it has a call object) leaves the
\* status `disconnected`, the pipeline status `idle`, the reference null and
\* no call object created-and-not-destroyed.
C4_TerminationReleasesAll ==
    [][ ( \/ \E t \in Transports : tr[t].state = "joined" /\ tr'[t].state = "left"
          \/ \E k \in Tasks : task[k].pc \in {"fetch", "json"} /\ task'[k].pc = "free" )
        => /\ connectionStatus' = "disconnected"
           /\ pipelineStatus' = "idle"
           /\ callObjectRef' = NoCall
           /\ \A t \in Transports : tr'[t].state \notin {"joining", "joined", "left"}
      ]_vars

\* C5: a status control message handled while the connection status is not
\* `connected` leaves the pipeline status as it was.
C5_StatusIgnoredUnlessConnected ==
    [][ \A t \in Transports, d \in StatusInputs :
          (connectionStatus # "connected" /\ AppMessage(t, d, 1))
            => pipelineStatus' = pipelineStatus
      ]_vars

\* C6: at most one call object is created and not yet destroyed.
C6_AtMostOneLiveTransport ==
    Cardinality({t \in Transports : Live(t)}) <= 1

\* ---------------------------------------------------------------- transcript claims
ReceivedIds == { received[i].message.id : i \in DOMAIN received }
IndicesOf(id) == { i \in DOMAIN received : received[i].message.id = id }
FirstIndexOf(id) == CHOOSE i \in IndicesOf(id) : \A j \in IndicesOf(id) : i <= j
LastIndexOf(id) == CHOOSE i \in IndicesOf(id) : \A j \in IndicesOf(id) : j <= i
\* Position of id among the ids in order of their first fragment.
RankOf(id) ==
    Cardinality({ x \in ReceivedIds : FirstIndexOf(x) <= FirstIndexOf(id) })

\* C7: for every identity received since the store was cleared, the store
\* holds exactly one entry with that id; it carries the text and final flag
\* of the last fragment applied for the id and sits where the id's first
\* fragment put it.
C7_OneEntryPerIdentity ==
    \A id \in ReceivedIds :
        /\ Cardinality({ k \in DOMAIN messages : messages[k].id = id }) = 1
        /\ RankOf(id) \in DOMAIN messages
        /\ messages[RankOf(id)].id = id
        /\ messages[RankOf(id)].text = received[LastIndexOf(id)].message.text
        /\ messages[RankOf(id)].final = received[LastIndexOf(id)].message.final

\* Three fragments: the first and the third carry the same explicit
\* messageId and role with different text and final flag, the second is
\* another utterance.
C7_Witness ==
    /\ Len(received) = 3
    /\ HasMessageId(received[1].data) /\ HasMessageId(received[3].data)
    /\ received[1].data.messageId = received[3].data.messageId
    /\ received[1].data.role = received[3].data.role
    /\ received[2].message.id # received[1].message.id
    /\ received[1].message.text # received[3].message.text
    /\ received[1].message.final # received[3].message.final
    /\ Len(messages) = 2

\* C8: across every step, an entry that stays in the store under its id
\* keeps its role, and once final it stays final.
C8_RoleFixedFinalMonotonic ==
    [][ \A i \in DOMAIN messages : \A j \in DOMAIN messages' :
          messages[i].id = messages'[j].id
            => /\ messages'[j].role = messages[i].role
               /\ (messages[i].final => messages'[j].final)
      ]_vars

\* The number inside a message's id.
IdNumberOf(m) ==
    CHOOSE n \in 0..(MaxCounter + MaxMessageId + 1) : m.id = CompositeId(m.role, n)

\* The fragments of role r that came without messageId, in arrival order.
IdLess(r) ==
    { i \in DOMAIN received :
        ~HasMessageId(received[i].data) /\ received[i].data.role = r }

CounterOf(r) == IF r = "user" THEN globalUserMessageId ELSE globalAssistantMessageId

\* C9: fragments without messageId of one role get strictly increasing
\* ids in arrival order; the next such fragment of the role gets exactly
\* the following number whatever fragments of the other role came in
\* between, and the role's counter stands at the number handed out last.
C9_FallbackIdsIncreasePerRole ==
    \A r \in Roles : \A i \in IdLess(r) :
        /\ \A j \in IdLess(r) :
              i < j => IdNumberOf(received[i].message) < IdNumberOf(received[j].message)
        /\ \A j \in IdLess(r) :
              (i < j /\ ~\E h \in IdLess(r) : i < h /\ h < j)
                => IdNumberOf(received[j].message) = IdNumberOf(received[i].message) + 1
        /\ (\A j \in IdLess(r) : j <= i)
              => IdNumberOf(received[i].message) = CounterOf(r)

\* Two fragments of one role without messageId, with one of the other role
\* between them.
C9_Witness ==
    /\ Len(received) = 3
    /\ \A i \in 1..3 : ~HasMessageId(received[i].data)
    /\ received[1].data.role = received[3].data.role
    /\ received[2].data.role # received[1].data.role

\* C10: a fragment without messageId never gets the id of another
\* utterance of the session, whether that one came with a messageId or not.
C10_FallbackIdsUnique ==
    \A i \in DOMAIN received : \A j \in DOMAIN received :
        (i # j /\ ~HasMessageId(received[j].data))
            => received[i].message.id # received[j].message.id

\* ---------------------------------------------------------------- log claims
Min(a, b) == IF a <= b THEN a ELSE b

\* C11: the log buffer never holds more than 20 entries, and it holds exactly
\* the most recent ones in arrival order: after n log messages (numbered by
\* their timestamps) it holds the messages n - Len + 1 .. n with
\* Len = min(n, 20), so the 21st message evicts the first.
C11_LogBufferKeepsLast20 ==
    /\ Len(logs) <= 20
    /\ logs # <<>> =>
          LET n == logs[Len(logs)].timestamp
          IN /\ Len(logs) = Min(n, 20)
             /\ \A i \in 1..Len(logs) : logs[i].timestamp = n - Len(logs) + i

\* The 21st log message has arrived: the buffer holds messages 2 to 21.
C11_Witness ==
    /\ Len(logs) = 20
    /\ logs[1].timestamp = 2
    /\ logs[20].timestamp = 21

\* ---------------------------------------------------------------- mute claims
\* The step is a toggleMute() call that directly follows a toggleMute() call
\* which found a call object.
SecondToggleInSuccession ==
    /\ lastCall = "toggleMute" /\ lastStep = "call"
    /\ beforeToggle.active
    /\ lastCall' = "toggleMute" /\ lastStep' = "call"
    /\ beforeToggle' # beforeToggle

\* C12: with a call object in the ref, two toggleMute() calls in succession
\* bring the call object's local audio and isMuted back to the values they
\* had before the first call, with exactly two setLocalAudio calls.
C12_DoubleToggleRestores ==
    [][SecondToggleInSuccession =>
          /\ tr'[callObjectRef].audio = beforeToggle.audio
          /\ tr'[callObjectRef].sets = beforeToggle.sets + 2
          /\ isMuted' = beforeToggle.isMuted]_vars

\* C13: toggleMute() without a call object in the ref changes neither a call
\* object's local audio nor isMuted, and isMuted is false whenever the ref
\* holds no call object.
C13_NoTransportMeansUnmuted ==
    [][/\ (callObjectRef = NoCall /\ lastCall' = "toggleMute" /\ lastStep' = "call")
            => UNCHANGED <<tr, isMuted>>
       /\ callObjectRef' = NoCall => isMuted' = FALSE]_vars

\* ---------------------------------------------------------------- lifecycle claims
\* C14: the connection state is one of disconnected, connecting and
\* connected, in the hook and in what a render returns, and the isConnected
\* a render returns is true exactly when the connection state it returns is
\* connected (false while connecting and while disconnected).
C14_IsConnectedIffConnected ==
    /\ connectionStatus \in {"disconnected", "connecting", "connected"}
    /\ view.connectionStatus \in {"disconnected", "connecting", "connected"}
    /\ isConnected <=> view.connectionStatus = "connected"
    /\ view.connectionStatus \in {"disconnected", "connecting"} => ~isConnected

\* A joined session has been rendered and reports isConnected.
C14_Witness ==
    /\ connectionStatus = "connected"
    /\ view.connectionStatus = "connected"
    /\ isConnected
    /\ \E t \in Transports : tr[t].state = "joined" /\ callObjectRef = t

\* The step is the failure of the credential fetch of the connect() in slot k.
FetchFailed(k) == task[k].pc = "fetch" /\ task'[k].pc \in {"free", "leave"}

\* C15: when the credential fetch fails, the connection state is
\* disconnected right after, no call object has been created and no fetch
\* has been started again; and a connect() called after the failure, with
\* the state disconnected and the session still there, is accepted: the
\* state becomes connecting and a new fetch is started.
C15_FetchFailureReverts ==
    [][/\ \A k \in Tasks : FetchFailed(k) =>
             /\ connectionStatus' = "disconnected"
             /\ sessionId' # NoSession
             /\ \A t \in Transports : tr[t].state = "none" => tr'[t].state = "none"
             /\ \A j \in Tasks : task'[j].pc = "fetch" => (j # k /\ task[j].pc = "fetch")
       /\ (/\ lastStep = "fetchFailed"
           /\ lastStep' = "call" /\ lastCall' = "connect"
           /\ connectionStatus = "disconnected" /\ sessionId # NoSession)
             => /\ connectionStatus' = "connecting"
                /\ \E k \in Tasks : task[k].pc = "free" /\ task'[k].pc = "fetch"]_vars

\* ---------------------------------------------------------------- control message claims
\* C16: a control message with an unknown type, without a type, or with a
\* null payload (on which decoding throws) is dropped: the connection state,
\* the pipeline status, the ref and the call objects stay as they are, no
\* callback is invoked and neither the messages nor the logs change.
C16_UnknownOrMalformedDropped ==
    [][lastStep' \in {"message:bogus", "message:untyped", "message:null"} =>
          /\ UNCHANGED <<connVars, isMuted, counters>>
          /\ cb'.invoked = cb.invoked
          /\ UNCHANGED <<messages, logs, received>>]_vars

\* A dropped message has just been processed in a connected session whose
\* pipeline status is idle and in which no callback was invoked yet.
C16_Witness ==
    /\ lastStep \in {"message:bogus", "message:untyped", "message:null"}
    /\ connectionStatus = "connected"
    /\ pipelineStatus = "idle"
    /\ cb.invoked = <<0, "none">>

\* C17: a status, transcript or log message invokes the callback of the set
\* the caller registered last, whatever set was registered when the call
\* object got its handlers.
C17_LatestCallbackNotified ==
    [][/\ lastStep' = "message:status" => cb'.invoked = <<cb.prop, "status">>
       /\ lastStep' = "message:transcript" => cb'.invoked = <<cb.prop, "transcript">>
       /\ lastStep' = "message:log" => cb'.invoked = <<cb.prop, "log">>]_vars

\* C19: the connection state becomes connecting only from disconnected and
\* by a connect() call, and becomes connected only from connecting and on a
\* joined-meeting event, which also leaves the pipeline status idle; so it
\* never goes from disconnected to connected in one step.
C19_LifecycleOrder ==
    [][/\ (connectionStatus # "connecting" /\ connectionStatus' = "connecting")
            => /\ connectionStatus = "disconnected"
               /\ lastStep' = "call" /\ lastCall' = "connect"
       /\ (connectionStatus # "connected" /\ connectionStatus' = "connected")
            => /\ connectionStatus = "connecting"
               /\ \E t \in Transports :
                     tr[t].state = "joining" /\ tr'[t].state = "joined"
               /\ pipelineStatus' = "idle"]_vars

\* C20: once the error event of a call object has been delivered, the hook
\* eventually is disconnected with an idle pipeline, a null ref and that
\* call object destroyed.
C20_ErrorForcesFullReset ==
    \A t \in Transports :
        (lastStep = "error:" \o ToString(t)) ~>
            (/\ connectionStatus = "disconnected"
             /\ pipelineStatus = "idle"
             /\ callObjectRef = NoCall
             /\ tr[t].state = "destroyed")

\* The step is the joined-meeting event of call object t.
JoinedEventOf(t) == tr[t].state = "joining" /\ tr'[t].state = "joined"

\* C21: whenever the connection state is connected, the ref holds a call
\* object, and it is the one whose joined-meeting event made the state
\* connected: a joined-meeting event leaves the state connected with that
\* call object in the ref, and while the state stays connected without a
\* further joined-meeting event the ref keeps its call object.
C21_ConnectedRefIsJoinedTransport ==
    [][/\ connectionStatus' = "connected" => callObjectRef' # NoCall
       /\ \A t \in Transports :
             (JoinedEventOf(t) /\ connectionStatus' = "connected")
                => callObjectRef' = t
       /\ (/\ connectionStatus = "connected" /\ connectionStatus' = "connected"
           /\ \A t \in Transports : ~JoinedEventOf(t))
             => callObjectRef' = callObjectRef]_vars

\* ---------------------------------------------------------------- view claims
\* Position of the stored message with this id in the store.
StorePosition(id) == CHOOSE i \in DOMAIN messages : messages[i].id = id

\* C18: the ordered transcript view holds exactly the stored messages, in
\* ascending order of timestamp whatever the order they arrived in, and two
\* messages with the same timestamp stand in the order in which they
\* arrived (the order of their first fragments, which is the store's).
C18_ViewSortedByTimestamp ==
    LET ordered == sortedMessages
    IN /\ Len(ordered) = Len(messages)
       /\ \A i \in DOMAIN messages : \E j \in DOMAIN ordered : ordered[j] = messages[i]
       /\ \A i, j \in DOMAIN ordered : i < j =>
             \/ ordered[i].timestamp < ordered[j].timestamp
             \/ /\ ordered[i].timestamp = ordered[j].timestamp
                /\ StorePosition(ordered[i].id) < StorePosition(ordered[j].id)
                /\ FirstIndexOf(ordered[i].id) < FirstIndexOf(ordered[j].id)

\* Messages with the timestamps 5, 1, 3 are stored in that order and the
\* view shows them as 1, 3, 5.
C18_Witness ==
    /\ Len(messages) = 3
    /\ <<messages[1].timestamp, messages[2].timestamp, messages[3].timestamp>>
          = <<5, 1, 3>>
    /\ <<sortedMessages[1].timestamp, sortedMessages[2].timestamp,
         sortedMessages[3].timestamp>> = <<1, 3, 5>>

====
